---- MODULE Spec2Model ----
(***************************************************************************)
(* Model of the poker_game Anchor program (src/programs/poker_game/src/    *)
(* lib.rs): one Game account, the eight instructions that act on it, the   *)
(* turn tracker and the seeded Fisher-Yates shuffle.                       *)
(*                                                                         *)
(* Every instruction is one atomic action.  An instruction that returns    *)
(* an error (or panics) is rolled back by the runtime: the Game account    *)
(* and its balance keep their values; the history variable `last` records  *)
(* the last instruction that succeeded.  The wallets of the players are    *)
(* outside the program: a transfer out of a wallet succeeds or fails as    *)
(* the wallet allows (an input of join_game), and the lamports the program *)
(* credits to a wallet are recorded in `last`.                             *)
(***************************************************************************)
EXTENDS Integers, Sequences, FiniteSets, TLC

VARIABLES
    game,             \* the Game account (struct Game, lib.rs 331-346)
    lamports,         \* lamport balance of the Game account
    overflow_checks,  \* whether the build panics on integer overflow
    last,             \* history: the last instruction that succeeded
    rounds            \* history: rounds started since the table was last empty

vars == <<game, lamports, overflow_checks, last, rounds>>

----------------------------------------------------------------------------
(* Program constants *)

MAX_PLAYERS == 6
DECK_SIZE == 52
COMMUNITY_CARDS == 5
U8_MAX == 255

(* Pubkey::default(), the empty-slot sentinel *)
DefaultKey == "default"

----------------------------------------------------------------------------
(* Bounds of the model *)

\* pot is a u64; the model keeps it at or below MaxPot (guards of join_game and bet)
MaxPot == 30
\* rounds started on one table before end_game clears it (guard of StartRound)
MaxRounds == 2
\* lamports the Game account holds when it is created (its rent reserve)
RentLamports == 30
\* the model keeps the balance of the Game account at or below MaxLamports
\* (guard of join_game's deposit)
MaxLamports == 35
\* first byte of the Game account's address (part of the shuffle seed)
GameKeyByte == 7

(* The signers that invoke instructions *)
Wallets == {"a", "b", "c"}

(* Inputs of the instructions *)
BlindConfigs == {<<5, 10>>}
Deposits == {0, 5}
BetAmounts == {5, 10, 20}
Timestamps == {0, 1, 1700000000}

Seats == 0 .. (MAX_PLAYERS - 1)

----------------------------------------------------------------------------
(* u64 arithmetic of pseudo_shuffle.  A u64 is a sequence of 8 limbs of 8   *)
(* bits, least significant first (limb k of the value is at index k + 1).  *)

LIMB_BASE == 256
U64_LIMBS == 8

\* 6364136223846793005 = 0x5851F42D4C957F2D
LCG_MULTIPLIER == <<45, 127, 149, 76, 45, 244, 81, 88>>

\* a value below 2^31 as a u64
ToU64(n) ==
    << n % LIMB_BASE,
       (n \div LIMB_BASE) % LIMB_BASE,
       (n \div (LIMB_BASE * LIMB_BASE)) % LIMB_BASE,
       (n \div (LIMB_BASE * LIMB_BASE * LIMB_BASE)) % LIMB_BASE,
       0, 0, 0, 0 >>

RECURSIVE ColumnSum(_, _, _, _)
\* sum of a[j] * b[k + 1 - j] for j in 1..i: the products of weight 256^(k-1)
ColumnSum(a, b, k, i) ==
    IF i < 1 THEN 0 ELSE a[i] * b[k + 1 - i] + ColumnSum(a, b, k, i - 1)

RECURSIVE ColumnTotal(_, _)
\* limb k of state * LCG_MULTIPLIER + 1 before reduction, with the carry of
\* the limbs below it
ColumnTotal(state, k) ==
    ColumnSum(state, LCG_MULTIPLIER, k, k)
    + (IF k = 1 THEN 1 ELSE ColumnTotal(state, k - 1) \div LIMB_BASE)

RECURSIVE LimbsUpTo(_, _)
LimbsUpTo(state, k) ==
    IF k < 1 THEN <<>>
    ELSE Append(LimbsUpTo(state, k - 1), ColumnTotal(state, k) % LIMB_BASE)

\* state.wrapping_mul(6364136223846793005).wrapping_add(1): the limbs above
\* the 8th are dropped
LcgStep(state) == LimbsUpTo(state, U64_LIMBS)

RECURSIVE ModFrom(_, _, _, _)
\* state % m, most significant limb first
ModFrom(state, m, k, acc) ==
    IF k < 1 THEN acc
    ELSE ModFrom(state, m, k - 1, (acc * LIMB_BASE + state[k]) % m)

U64Mod(state, m) == ModFrom(state, m, U64_LIMBS, 0)

\* deck.swap(i, j)
\* a swap that loses the card at i: it copies deck[j] over it and leaves j
Swap_copy_only(deck, i, j) == [deck EXCEPT ![i] = deck[j]]

Swap(deck, i, j) == [deck EXCEPT ![i] = deck[j], ![j] = deck[i]]

RECURSIVE ShuffleFrom(_, _, _)
\* the loop of pseudo_shuffle: for i in (1..deck.len()).rev().  Each
\* iteration binds the generator state s and the deck d as values before the
\* next iteration starts.
ShuffleFrom(deck, state, i) ==
    IF i < 1 THEN deck
    ELSE CHOOSE shuffled \in
            { ShuffleFrom(Swap(d, i, U64Mod(s, i + 1)), s, i - 1) :
                  s \in {LcgStep(state)}, d \in {deck} } : TRUE

pseudo_shuffle(deck, seed) == ShuffleFrom(deck, ToU64(seed), DECK_SIZE - 1)

\* let mut deck: Vec<u8> = (0..52).collect()
FreshDeck == [c \in 0 .. (DECK_SIZE - 1) |-> c]

\* seed = clock.unix_timestamp as u64 + game.key().to_bytes()[0] as u64
SeedOf(unix_timestamp) == unix_timestamp + GameKeyByte

\* the shuffled deck of every seed the model draws, computed once
ShuffledDecks ==
    [t \in Timestamps |-> pseudo_shuffle(FreshDeck, SeedOf(t))]

----------------------------------------------------------------------------
(* The Game account *)

NoSeat == -1
CardIdx == 0 .. (COMMUNITY_CARDS - 1)
HoleIdx == 0 .. 1

\* the value initialize_game writes into the account
initialize_game(small_blind, big_blind) ==
    [ players          |-> [i \in Seats |-> DefaultKey],
      player_hands     |-> [i \in Seats |-> [c \in HoleIdx |-> 0]],
      community_cards  |-> [c \in CardIdx |-> 0],
      pot              |-> 0,
      small_blind      |-> small_blind,
      big_blind        |-> big_blind,
      current_bet      |-> 0,
      current_turn     |-> 0,
      betting_round    |-> 0,
      is_active        |-> FALSE,
      folded           |-> [i \in Seats |-> FALSE],
      player_bets      |-> [i \in Seats |-> 0],
      players_in_round |-> 0 ]

\* #[account(init, payer = user, ...)]: the account is created holding its
\* rent reserve
InitialLamports == RentLamports

\* what an instruction leaves behind: its result, the Game account, the
\* balance of the Game account, and the lamports moved between that balance
\* and the wallet that came with the instruction (into the Game account by
\* join_game, out of it by reveal_winner and end_game).  A failed
\* instruction leaves the values it was given.
Outcome(result, g, lam, moved) ==
    [result |-> result, game |-> g, lamports |-> lam, moved |-> moved]

Failed(error, g, lam) == Outcome(error, g, lam, 0)

\* u8 += 1 / u8 -= 1: "Panic" stands for the arithmetic-overflow panic of a
\* build with overflow checks; without them the value wraps.
U8Overflows(x) == x < 0 \/ x > U8_MAX
U8Wrap(x) == x % (U8_MAX + 1)

\* a seat search that takes the last empty seat instead of the first
HighestEmptySeat(players) ==
    LET empty == {i \in Seats : players[i] = DefaultKey}
    IN  IF empty = {} THEN NoSeat
        ELSE CHOOSE i \in empty : \A j \in empty : i >= j

\* the first index i in 0..MAX_PLAYERS with players[i] == Pubkey::default()
FirstEmptySeat(players) ==
    LET empty == {i \in Seats : players[i] = DefaultKey}
    IN  IF empty = {} THEN NoSeat
        ELSE CHOOSE i \in empty : \A j \in empty : i <= j

\* players.iter().position(|&p| p == key)
position(players, key) ==
    LET hits == {i \in Seats : players[i] = key}
    IN  IF hits = {} THEN NoSeat
        ELSE CHOOSE i \in hits : \A j \in hits : i <= j

RECURSIVE NextScan(_, _, _, _)
\* the loop of next_active_player with n iterations left
NextScan(players, folded, next, n) ==
    IF n = 0 THEN NoSeat
    ELSE LET nx == (next + 1) % MAX_PLAYERS
         IN  IF players[nx] # DefaultKey /\ ~folded[nx] THEN nx
             ELSE NextScan(players, folded, nx, n - 1)

\* a turn tracker that always starts its scan at seat 0
next_active_player_lowest(players, folded, current_turn) ==
    LET live == {i \in Seats : players[i] # DefaultKey /\ ~folded[i]}
    IN  IF live = {} THEN NoSeat
        ELSE CHOOSE i \in live : \A j \in live : i <= j

\* a turn tracker that passes the turn to the next seat whatever it holds
next_active_player_unchecked(players, folded, current_turn) ==
    (current_turn + 1) % MAX_PLAYERS

\* NoSeat stands for Err(NoActivePlayers)
next_active_player(players, folded, current_turn) ==
    NextScan(players, folded, current_turn, MAX_PLAYERS)

----------------------------------------------------------------------------
(* join_game *)

\* transfer_ok: whether system_instruction::transfer of the deposit out of
\* the player's wallet succeeds
join_game(g, lam, player, deposit, transfer_ok) ==
    LET slot == FirstEmptySeat(g.players)
        seated == [g EXCEPT !.players[slot] = player,
                            !.players_in_round = U8Wrap(@ + 1)]
    IN  IF slot = NoSeat THEN Failed("GameFull", g, lam)
        ELSE IF overflow_checks /\ U8Overflows(g.players_in_round + 1)
            THEN Failed("Panic", g, lam)
        ELSE IF deposit > 0
            THEN IF ~transfer_ok THEN Failed("TransferFailed", g, lam)
                 ELSE Outcome("Ok", [seated EXCEPT !.pot = @ + deposit],
                              lam + deposit, deposit)
        ELSE Outcome("Ok", seated, lam, 0)

----------------------------------------------------------------------------
(* start_round *)

RECURSIVE DealHole(_, _, _, _, _)
\* the hole-card loop from seat i on; yields the hands and the deck index
DealHole(players, hands, deck, i, deck_index) ==
    IF i >= MAX_PLAYERS THEN [hands |-> hands, deck_index |-> deck_index]
    ELSE IF players[i] # DefaultKey
        THEN DealHole(players,
                      [hands EXCEPT ![i] = [c \in HoleIdx |-> deck[deck_index + c]]],
                      deck, i + 1, deck_index + 2)
        ELSE DealHole(players, hands, deck, i + 1, deck_index)

DealCommunity(deck, deck_index) ==
    [c \in CardIdx |-> deck[deck_index + c]]

start_round(g, lam, unix_timestamp) ==
    LET deck == ShuffledDecks[unix_timestamp]
        dealt == DealHole(g.players, g.player_hands, deck, 0, 0)
    IN  IF g.is_active THEN Failed("GameAlreadyStarted", g, lam)
        ELSE Outcome("Ok",
                [g EXCEPT !.folded = [i \in Seats |-> FALSE],
                          !.player_bets = [i \in Seats |-> 0],
                          !.pot = 0,
                          !.player_hands = dealt.hands,
                          !.community_cards = DealCommunity(deck, dealt.deck_index),
                          !.is_active = TRUE,
                          !.betting_round = 0,
                          !.current_turn = 0,
                          !.current_bet = g.big_blind],
                lam, 0)

----------------------------------------------------------------------------
(* bet, call, fold *)

\* checks that look at the turn before they look at the folded flag
ActionCheck_turn_first(g, player, folded_error) ==
    LET player_index == position(g.players, player)
    IN  IF ~g.is_active THEN "GameNotActive"
        ELSE IF player_index = NoSeat THEN "PlayerNotInGame"
        ELSE IF player_index # g.current_turn THEN "NotPlayersTurn"
        ELSE IF g.folded[player_index] THEN folded_error
        ELSE "Ok"

\* the checks bet, call and fold share, in the order of the code; "Ok" when
\* all pass.  folded_error is PlayerFolded (bet, call) or PlayerAlreadyFolded
\* (fold).
ActionCheck(g, player, folded_error) ==
    LET player_index == position(g.players, player)
    IN  IF ~g.is_active THEN "GameNotActive"
        ELSE IF player_index = NoSeat THEN "PlayerNotInGame"
        ELSE IF g.folded[player_index] THEN folded_error
        ELSE IF player_index # g.current_turn THEN "NotPlayersTurn"
        ELSE "Ok"

\* game.current_turn = next_active_player(...)?
AdvanceTurn(g, lam, g1) ==
    LET next == next_active_player(g1.players, g1.folded, g1.current_turn)
    IN  IF next = NoSeat THEN Failed("NoActivePlayers", g, lam)
        ELSE Outcome("Ok", [g1 EXCEPT !.current_turn = next], lam, 0)

\* a bet that sets the pot to the amount instead of adding the amount to it
bet_replaces_pot(g, lam, player, amount) ==
    LET check == ActionCheck(g, player, "PlayerFolded")
        player_index == position(g.players, player)
        g1 == [g EXCEPT !.player_bets[player_index] = amount,
                        !.pot = amount,
                        !.current_bet = amount]
    IN  IF check # "Ok" THEN Failed(check, g, lam)
        ELSE IF amount < g.current_bet THEN Failed("BetTooLow", g, lam)
        ELSE AdvanceTurn(g, lam, g1)

bet(g, lam, player, amount) ==
    LET check == ActionCheck(g, player, "PlayerFolded")
        player_index == position(g.players, player)
        g1 == [g EXCEPT !.player_bets[player_index] = amount,
                        !.pot = @ + amount,
                        !.current_bet = amount]
    IN  IF check # "Ok" THEN Failed(check, g, lam)
        ELSE IF amount < g.current_bet THEN Failed("BetTooLow", g, lam)
        ELSE AdvanceTurn(g, lam, g1)

\* an amount to call that forgets what the seat has already put in
ToCall_whole_bet(current_bet, player_bet) == current_bet

\* game.current_bet.saturating_sub(game.player_bets[player_index])
ToCall(current_bet, player_bet) ==
    IF current_bet > player_bet THEN current_bet - player_bet ELSE 0

call(g, lam, player) ==
    LET check == ActionCheck(g, player, "PlayerFolded")
        player_index == position(g.players, player)
        to_call == ToCall(g.current_bet, g.player_bets[player_index])
        g1 == [g EXCEPT !.player_bets[player_index] = @ + to_call,
                        !.pot = @ + to_call]
    IN  IF check # "Ok" THEN Failed(check, g, lam)
        ELSE AdvanceTurn(g, lam, g1)

\* if game.players_in_round == 1 { is_active = false } else { advance turn }
FoldFinish(g, lam, g1) ==
    IF g1.players_in_round = 1
    THEN Outcome("Ok", [g1 EXCEPT !.is_active = FALSE], lam, 0)
    ELSE AdvanceTurn(g, lam, g1)

fold(g, lam, player) ==
    LET check == ActionCheck(g, player, "PlayerAlreadyFolded")
        player_index == position(g.players, player)
        g1 == [g EXCEPT !.folded[player_index] = TRUE,
                        !.players_in_round = U8Wrap(@ - 1)]
    IN  IF check # "Ok" THEN Failed(check, g, lam)
        ELSE IF overflow_checks /\ U8Overflows(g.players_in_round - 1)
            THEN Failed("Panic", g, lam)
        ELSE FoldFinish(g, lam, g1)

----------------------------------------------------------------------------
(* reveal_winner, end_game *)

\* **game.lamports -= pot; **to.lamports += pot.  When the Game account holds
\* less than pot the u64 subtraction overflows: a build with overflow checks
\* panics, and without them the wrapped balances no longer add up and the
\* runtime rejects the instruction.  Either way the instruction fails.
PayOut(g, g1, lam) ==
    IF lam < g.pot
    THEN Failed(IF overflow_checks THEN "Panic" ELSE "UnbalancedInstruction",
                g, lam)
    ELSE Outcome("Ok", g1, lam - g.pot, g.pot)

reveal_winner(g, lam, winner, winner_account) ==
    LET winner_index == position(g.players, winner)
    IN  IF ~g.is_active THEN Failed("GameNotActive", g, lam)
        ELSE IF winner_index = NoSeat THEN Failed("PlayerNotInGame", g, lam)
        ELSE IF g.folded[winner_index] THEN Failed("PlayerFolded", g, lam)
        ELSE PayOut(g, [g EXCEPT !.pot = 0, !.is_active = FALSE], lam)

\* a reset that forgets the counter of the seats in the round
ResetGame_keeps_counter(g) ==
    [g EXCEPT !.pot = 0,
              !.is_active = FALSE,
              !.players = [i \in Seats |-> DefaultKey],
              !.player_hands = [i \in Seats |-> [c \in HoleIdx |-> 0]],
              !.community_cards = [c \in CardIdx |-> 0],
              !.current_bet = 0,
              !.current_turn = 0,
              !.betting_round = 0,
              !.folded = [i \in Seats |-> FALSE],
              !.player_bets = [i \in Seats |-> 0]]

\* the reset at the end of end_game (small_blind and big_blind are kept)
ResetGame(g) ==
    [g EXCEPT !.pot = 0,
              !.is_active = FALSE,
              !.players = [i \in Seats |-> DefaultKey],
              !.player_hands = [i \in Seats |-> [c \in HoleIdx |-> 0]],
              !.community_cards = [c \in CardIdx |-> 0],
              !.current_bet = 0,
              !.current_turn = 0,
              !.betting_round = 0,
              !.folded = [i \in Seats |-> FALSE],
              !.player_bets = [i \in Seats |-> 0],
              !.players_in_round = 0]

\* an end_game that looks at is_active before it looks at the signer
end_game_status_first(g, lam, signer) ==
    IF ~g.is_active THEN Failed("GameNotActive", g, lam)
    ELSE IF signer # g.players[0] THEN Failed("NotAuthorized", g, lam)
    ELSE IF g.pot > 0 THEN PayOut(g, ResetGame(g), lam)
    ELSE Outcome("Ok", ResetGame(g), lam, 0)

end_game(g, lam, signer) ==
    IF signer # g.players[0] THEN Failed("NotAuthorized", g, lam)
    ELSE IF ~g.is_active THEN Failed("GameNotActive", g, lam)
    ELSE IF g.pot > 0 THEN PayOut(g, ResetGame(g), lam)
    ELSE Outcome("Ok", ResetGame(g), lam, 0)

----------------------------------------------------------------------------
(* The instructions as actions *)

NoAccount == "none"

\* the record of the last instruction that succeeded: its name, the account
\* that came with it (the player, the signer, the winner's account), the
\* lamports it moved between that account and the Game account, and the pot
\* it found
Attempt(op, account, moved, pot_before) ==
    [op |-> op, account |-> account, moved |-> moved, pot_before |-> pot_before]

\* the runtime commits a successful instruction and rolls a failed one back,
\* leaving no trace of it; pot and the balance stay within the range the
\* model covers
Commit(out, op, account) ==
    /\ out.game.pot <= MaxPot
    /\ out.lamports <= MaxLamports
    /\ IF out.result = "Ok"
       THEN /\ game' = out.game
            /\ lamports' = out.lamports
            /\ last' = Attempt(op, account, out.moved, game.pot)
            /\ rounds' = IF op = "start_round" THEN rounds + 1
                          ELSE IF op = "end_game" THEN 0
                          ELSE rounds
       ELSE UNCHANGED <<game, lamports, last, rounds>>
    /\ UNCHANGED overflow_checks

JoinGame(player, deposit, transfer_ok) ==
    Commit(join_game(game, lamports, player, deposit, transfer_ok),
           "join_game", player)

StartRound(unix_timestamp) ==
    /\ rounds < MaxRounds
    /\ Commit(start_round(game, lamports, unix_timestamp),
              "start_round", NoAccount)

Bet(player, amount) ==
    Commit(bet(game, lamports, player, amount), "bet", player)

Call(player) ==
    Commit(call(game, lamports, player), "call", player)

Fold(player) ==
    Commit(fold(game, lamports, player), "fold", player)

RevealWinner(winner, winner_account) ==
    Commit(reveal_winner(game, lamports, winner, winner_account),
           "reveal_winner", winner_account)

EndGame(signer) ==
    Commit(end_game(game, lamports, signer), "end_game", signer)

Init ==
    /\ \E cfg \in BlindConfigs : game = initialize_game(cfg[1], cfg[2])
    /\ lamports = InitialLamports
    /\ overflow_checks \in BOOLEAN
    /\ last = Attempt("initialize_game", NoAccount, 0, 0)
    /\ rounds = 0

\* the number of occupied seats
Seated == Cardinality({i \in Seats : game.players[i] # DefaultKey})

\* the instructions, with their inputs drawn from the given sets; cap bounds
\* the number of seats that join_game fills
NextOver(W, D, B, T, cap) ==
    \/ \E player \in W, deposit \in D, transfer_ok \in BOOLEAN :
            Seated < cap /\ JoinGame(player, deposit, transfer_ok)
    \/ \E unix_timestamp \in T : StartRound(unix_timestamp)
    \/ \E player \in W, amount \in B : Bet(player, amount)
    \/ \E player \in W : Call(player)
    \/ \E player \in W : Fold(player)
    \/ \E winner \in W \cup {DefaultKey}, winner_account \in W :
            RevealWinner(winner, winner_account)
    \/ \E signer \in W : EndGame(signer)

\* Spec: two wallets play on half of the table, with and without deposits
HalfTable == MAX_PLAYERS \div 2
Next == NextOver({"a", "b"}, Deposits, BetAmounts, {0}, HalfTable)
Spec == Init /\ [][Next]_vars

\* SpecTable: one wallet fills the whole table, over every timestamp
NextTable == NextOver({"a"}, Deposits, {10}, Timestamps, MAX_PLAYERS)
SpecTable == Init /\ [][NextTable]_vars

\* SpecScenario: three wallets play on half of the table without deposits
NextScenario == NextOver(Wallets, {0}, BetAmounts, {0}, HalfTable)
SpecScenario == Init /\ [][NextScenario]_vars

----------------------------------------------------------------------------
(* Vocabulary of the properties *)

Occupied(g, i) == g.players[i] # DefaultKey

\* the seats that are occupied and not folded
InHand(g) == {i \in Seats : Occupied(g, i) /\ ~g.folded[i]}

RECURSIVE SumUpTo(_, _)
SumUpTo(f, i) == IF i < 0 THEN 0 ELSE f[i] + SumUpTo(f, i - 1)

\* the sum of the contributions of all seats
TotalContributions(g) == SumUpTo(g.player_bets, MAX_PLAYERS - 1)

----------------------------------------------------------------------------
(* C1: in every reachable state pot equals the sum of the contributions    *)
(* (player_bets) of the 6 seats.                                           *)
C1_PotIsSumOfContributions == game.pot = TotalContributions(game)

(* C2: in every reachable state the stored counter players_in_round equals *)
(* the number of seats that are occupied and not folded.                   *)
C2_CounterIsSeatsInHand == game.players_in_round = Cardinality(InHand(game))

(* C3: whenever a round is active and players_in_round > 1, current_turn   *)
(* is the index of a seat that is occupied and not folded.                 *)
C3_TurnIsInHand ==
    (game.is_active /\ game.players_in_round > 1)
        => game.current_turn \in InHand(game)

\* C3 is exercised: a fold has just passed the turn on in a round that goes on
C3_Witness ==
    /\ last.op = "fold"
    /\ game.is_active
    /\ game.players_in_round > 1
    /\ \E i \in Seats : game.folded[i]
    /\ game.current_turn # 0

(* C4: in every reachable state no two occupied seats hold the same        *)
(* identity.                                                               *)
C4_NoIdentityTwice ==
    \A i, j \in Seats :
        (i # j /\ Occupied(game, i) /\ Occupied(game, j))
            => game.players[i] # game.players[j]

(* C5: a join_game attempted when all 6 seats are occupied fails with      *)
(* GameFull and leaves the Game account and its balance as they were; a    *)
(* join_game attempted when a seat is empty does not fail with GameFull,   *)
(* and when it succeeds (no deposit, or a deposit whose transfer goes      *)
(* through) it writes the player into the lowest-indexed empty seat and    *)
(* into no other seat.                                                     *)
C5_JoinTakesLowestEmptySeat ==
    \A player \in Wallets, deposit \in Deposits, transfer_ok \in BOOLEAN :
        LET out == join_game(game, lamports, player, deposit, transfer_ok)
            empty == {i \in Seats : ~Occupied(game, i)}
        IN  IF empty = {}
            THEN /\ out.result = "GameFull"
                 /\ out.game = game
                 /\ out.lamports = lamports
            ELSE /\ out.result # "GameFull"
                 /\ (deposit = 0 \/ transfer_ok) => out.result = "Ok"
                 /\ out.result = "Ok" =>
                        \E i \in empty :
                            /\ \A j \in empty : i <= j
                            /\ out.game.players =
                                   [game.players EXCEPT ![i] = player]

\* C5 is exercised: the sixth join has filled the table, deposits are in the
\* pot, and a seventh join is turned away
C5_Witness ==
    /\ last.op = "join_game"
    /\ Seated = MAX_PLAYERS
    /\ game.players[MAX_PLAYERS - 1] = last.account
    /\ game.pot > 0
    /\ join_game(game, lamports, "b", 5, TRUE).result = "GameFull"

(* C6: in every reachable state, active or not, end_game signed by any     *)
(* identity other than the one in seat 0 fails with NotAuthorized and      *)
(* leaves the Game account and its balance as they were.                   *)
C6_EndGameOnlyBySeatZero ==
    \A signer \in Wallets :
        signer # game.players[0] =>
            LET out == end_game(game, lamports, signer)
            IN  /\ out.result = "NotAuthorized"
                /\ out.game = game
                /\ out.lamports = lamports

\* C6 is exercised: between rounds, with b seated but not in seat 0, b's
\* end_game is turned away as not authorized
C6_Witness ==
    /\ ~game.is_active
    /\ rounds > 0
    /\ game.players[0] = "a"
    /\ game.players[1] = "b"
    /\ end_game(game, lamports, "b").result = "NotAuthorized"

\* the table of the scenario: initialize_game(5, 10), three joins by three
\* identities without deposit, and the first start_round
ScenarioStart ==
    /\ last.op = "start_round"
    /\ rounds = 1
    /\ game.small_blind = 5 /\ game.big_blind = 10
    /\ \A i \in Seats : Occupied(game, i) <=> i < 3
    /\ game.players[0] # game.players[1]
    /\ game.players[0] # game.players[2]
    /\ game.players[1] # game.players[2]
    /\ game.players_in_round = 3
    /\ game.current_bet = 10
    /\ lamports = InitialLamports

\* from the table as it is: the identity in seat caller calls, the one in seat
\* bettor bets 20, the one in seat folder folds, and reveal_winner names the
\* identity in seat winner and pays into its wallet; every step succeeds, with
\* pot 10 after the call, pot 30 and current_bet 20 after the bet,
\* players_in_round 2 and current_turn turn after the fold, and pot 0 with 30
\* lamports paid after reveal_winner
ScenarioRuns(caller, bettor, folder, turn, winner) ==
    LET o1 == call(game, lamports, game.players[caller])
        o2 == bet(o1.game, o1.lamports, game.players[bettor], 20)
        o3 == fold(o2.game, o2.lamports, game.players[folder])
        o4 == reveal_winner(o3.game, o3.lamports, game.players[winner],
                            game.players[winner])
    IN  /\ o1.result = "Ok" /\ o1.game.pot = 10
        /\ o2.result = "Ok" /\ o2.game.pot = 30 /\ o2.game.current_bet = 20
        /\ o3.result = "Ok" /\ o3.game.players_in_round = 2
        /\ o3.game.current_turn = turn /\ o3.game.is_active
        /\ o4.result = "Ok" /\ o4.game.pot = 0 /\ o4.moved = 30
        /\ o4.lamports = lamports - 30 /\ ~o4.game.is_active

(* C7, as stated: after initialize_game(5, 10), three joins with deposit 0 *)
(* and start_round (current_bet 10), the sequence "seat 1 calls, seat 2    *)
(* bets 20, seat 0 folds, reveal_winner(seat 1)" succeeds step by step     *)
(* with pot 10 after the call, pot 30 and current_bet 20 after the bet,    *)
(* players_in_round 2 and current_turn 1 after the fold, and pot 0 with 30 *)
(* paid to seat 1 after reveal_winner.                                     *)
C7_ScenarioAsStated == ScenarioStart => ScenarioRuns(1, 2, 0, 1, 1)

(* C7, amended: start_round gives the first turn to seat 0, so from the    *)
(* same table it is the sequence "seat 0 calls, seat 1 bets 20, seat 2     *)
(* folds, reveal_winner(seat 1)" that succeeds step by step, with pot 10   *)
(* after the call, pot 30 and current_bet 20 after the bet,                *)
(* players_in_round 2 and current_turn 0 after the fold, and pot 0 with 30 *)
(* paid to seat 1 after reveal_winner.                                     *)
C7_ScenarioFromSeatZero == ScenarioStart => ScenarioRuns(0, 1, 2, 0, 1)

\* C7 is exercised: the amended sequence has been played to its end by
\* a, b and c
C7_Witness ==
    /\ last = Attempt("reveal_winner", "b", 30, 30)
    /\ rounds = 1
    /\ game.players = [i \in Seats |-> IF i = 0 THEN "a" ELSE IF i = 1 THEN "b"
                                        ELSE IF i = 2 THEN "c" ELSE DefaultKey]
    /\ game.player_bets = [i \in Seats |-> IF i = 0 THEN 10 ELSE IF i = 1 THEN 20
                                            ELSE 0]
    /\ game.folded = [i \in Seats |-> i = 2]
    /\ game.players_in_round = 2
    /\ game.current_turn = 0
    /\ game.current_bet = 20
    /\ game.pot = 0
    /\ ~game.is_active
    /\ lamports = InitialLamports - 30

(* C8: every successful fold after which exactly one seat is occupied and  *)
(* not folded sets is_active to false and leaves pot as it was; every      *)
(* successful fold after which more than one such seat remains leaves      *)
(* is_active true.                                                         *)
C8_FoldEndsRoundAtOneSeat ==
    [][ last'.op = "fold" =>
            LET remaining == Cardinality(InHand(game'))
            IN  /\ remaining = 1 => (~game'.is_active /\ game'.pot = game.pot)
                /\ remaining > 1 => game'.is_active ]_vars

(* C9: every successful call adds max(0, current_bet - player_bets[seat])  *)
(* to pot and to the caller's player_bets entry and to nothing else; when  *)
(* the entry already equals current_bet the call changes no field of the   *)
(* Game account other than current_turn, and no balance.                   *)
C9_CallAddsWhatIsOwed ==
    [][ last'.op = "call" =>
            LET seat == game.current_turn
                owed == IF game.current_bet >= game.player_bets[seat]
                        THEN game.current_bet - game.player_bets[seat]
                        ELSE 0
            IN  /\ game.players[seat] = last'.account
                /\ game'.pot = game.pot + owed
                /\ game'.player_bets =
                       [game.player_bets EXCEPT ![seat] = @ + owed]
                /\ lamports' = lamports
                /\ game.player_bets[seat] = game.current_bet =>
                       game' = [game EXCEPT !.current_turn = game'.current_turn]
      ]_vars

\* C9 is exercised: the last instruction was a call by a seat that had
\* already matched a positive current_bet, after calls that did add to the pot
C9_Witness ==
    /\ last.op = "call"
    /\ game.is_active
    /\ last.pot_before = game.pot
    /\ game.pot > 0
    /\ game.current_bet > 0
    /\ \A i \in InHand(game) : game.player_bets[i] = game.current_bet
    /\ Cardinality(InHand(game)) > 1

RECURSIVE HoleCardsFrom(_, _)
\* the hole cards of the occupied seats from seat i on, in seat order
HoleCardsFrom(g, i) ==
    IF i >= MAX_PLAYERS THEN << >>
    ELSE (IF Occupied(g, i)
          THEN << g.player_hands[i][0], g.player_hands[i][1] >>
          ELSE << >>) \o HoleCardsFrom(g, i + 1)

\* the cards on the table: the hole cards in seat order, then the community
\* cards
DealtCards(g) ==
    HoleCardsFrom(g, 0) \o [k \in 1 .. COMMUNITY_CARDS |-> g.community_cards[k - 1]]

(* C10: right after every successful start_round, whatever the timestamp   *)
(* that seeded the shuffle and however many seats are occupied, the 2 hole *)
(* cards of every occupied seat and the 5 community cards are card codes   *)
(* in 0..51, no two of them equal, and they are the leading cards of the   *)
(* shuffled deck in order: hole cards by ascending seat, then the next 5   *)
(* as community cards.                                                     *)
C10_DealIsSequentialAndDistinct ==
    last.op = "start_round" =>
        LET cards == DealtCards(game)
        IN  /\ Len(cards) = 2 * Seated + COMMUNITY_CARDS
            /\ \A k \in 1 .. Len(cards) : cards[k] \in 0 .. (DECK_SIZE - 1)
            /\ \A k, l \in 1 .. Len(cards) : k # l => cards[k] # cards[l]
            /\ \E t \in Timestamps :
                   \A k \in 1 .. Len(cards) : cards[k] = ShuffledDecks[t][k - 1]

\* C10 is exercised: a full table has just been dealt from the deck that the
\* largest timestamp shuffles
C10_Witness ==
    /\ last.op = "start_round"
    /\ Seated = MAX_PLAYERS
    /\ \A c \in CardIdx :
           game.community_cards[c] = ShuffledDecks[1700000000][2 * MAX_PLAYERS + c]
    /\ game.player_hands[MAX_PLAYERS - 1][1] # 0

\* the seats that hold an identity, and the seat an instruction finds for it:
\* the lowest of them
SeatsOf(g, key) == {i \in Seats : g.players[i] = key}

SeatOf(g, key) == CHOOSE i \in SeatsOf(g, key) : \A j \in SeatsOf(g, key) : i <= j

\* the first of the stated conditions that applies to an action of player,
\* "none" when none does
Refusal(g, player, folded_error) ==
    IF ~g.is_active THEN "GameNotActive"
    ELSE IF SeatsOf(g, player) = {} THEN "PlayerNotInGame"
    ELSE IF g.folded[SeatOf(g, player)] THEN folded_error
    ELSE IF SeatOf(g, player) # g.current_turn THEN "NotPlayersTurn"
    ELSE "none"

\* out fails with the error refusal and leaves the account and its balance as
\* they were, or no refusal applies; and out succeeds only if none applies
RefusedAs(out, refusal) ==
    /\ refusal # "none" =>
           (out.result = refusal /\ out.game = game /\ out.lamports = lamports)
    /\ out.result = "Ok" => refusal = "none"

(* C11: in every reachable state, for every caller, bet, call and fold     *)
(* fail with GameNotActive if is_active is false; otherwise with           *)
(* PlayerNotInGame if the caller holds no seat; otherwise with             *)
(* PlayerFolded (bet, call) or PlayerAlreadyFolded (fold) if the caller's  *)
(* seat is folded; otherwise with NotPlayersTurn if that seat is not       *)
(* current_turn; bet otherwise fails with BetTooLow if amount is below     *)
(* current_bet.  Each such failure leaves the account and its balance as   *)
(* they were, and an action succeeds only when none of the conditions      *)
(* applies.  The caller's seat is the lowest seat holding the caller.      *)
C11_RefusalsInOrder ==
    \A player \in Wallets :
        /\ RefusedAs(call(game, lamports, player),
                     Refusal(game, player, "PlayerFolded"))
        /\ RefusedAs(fold(game, lamports, player),
                     Refusal(game, player, "PlayerAlreadyFolded"))
        /\ \A amount \in BetAmounts :
               RefusedAs(bet(game, lamports, player, amount),
                         IF Refusal(game, player, "PlayerFolded") # "none"
                         THEN Refusal(game, player, "PlayerFolded")
                         ELSE IF amount < game.current_bet THEN "BetTooLow"
                         ELSE "none")

\* C11 is exercised: in a round that goes on after a's fold, a is refused as
\* folded although the turn is not a's, b is refused a bet below current_bet,
\* and c is refused as not in the game
C11_Witness ==
    /\ last = Attempt("fold", "a", 0, game.pot)
    /\ game.is_active
    /\ game.current_turn # SeatOf(game, "a")
    /\ bet(game, lamports, "a", 20).result = "PlayerFolded"
    /\ fold(game, lamports, "a").result = "PlayerAlreadyFolded"
    /\ bet(game, lamports, "b", 5).result = "BetTooLow"
    /\ bet(game, lamports, "b", 10).result = "Ok"
    /\ call(game, lamports, "c").result = "PlayerNotInGame"

(* C12: reveal_winner fails with GameNotActive when is_active is false;    *)
(* otherwise with PlayerNotInGame for every winner value that holds no     *)
(* seat, the value that marks an empty seat included; otherwise with       *)
(* PlayerFolded when the winner's seat is folded; it succeeds only when    *)
(* none of these applies.                                                  *)
C12_RevealWinnerRefusals ==
    \A winner \in Wallets \cup {DefaultKey}, winner_account \in Wallets :
        LET out == reveal_winner(game, lamports, winner, winner_account)
            refusal == IF ~game.is_active THEN "GameNotActive"
                       ELSE IF winner = DefaultKey \/ SeatsOf(game, winner) = {}
                           THEN "PlayerNotInGame"
                       ELSE IF game.folded[SeatOf(game, winner)]
                           THEN "PlayerFolded"
                       ELSE "none"
        IN  /\ refusal # "none" => out.result = refusal
            /\ out.result = "Ok" => refusal = "none"

(* C13: every successful reveal_winner moves exactly the pot it finds out  *)
(* of the balance of the Game account and into the balance of the winner,  *)
(* that is, of an identity that holds a seat that is not folded; it sets   *)
(* pot to 0 and is_active to false and leaves players, player_hands,       *)
(* community_cards, folded, player_bets, current_bet, current_turn,        *)
(* betting_round, the blinds and players_in_round as they were.            *)
C13_RevealWinnerPaysWinner ==
    [][ last'.op = "reveal_winner" =>
            /\ last'.moved = game.pot
            /\ lamports' = lamports - game.pot
            /\ SeatsOf(game, last'.account) # {}
            /\ \E i \in SeatsOf(game, last'.account) : ~game.folded[i]
            /\ game' = [game EXCEPT !.pot = 0, !.is_active = FALSE] ]_vars

(* C14: in every reachable state, end_game signed by the identity in seat  *)
(* 0 fails with GameNotActive when is_active is false; when it succeeds    *)
(* it moves the whole pot out of the balance of the Game account to the    *)
(* signer and leaves the account equal to what initialize_game produces    *)
(* with the same small_blind and big_blind: all seats empty, all cards 0,  *)
(* pot, current_bet, current_turn, betting_round and players_in_round 0,   *)
(* no seat folded, all player_bets 0, is_active false.  It succeeds        *)
(* whenever the round is active and the balance covers the pot.            *)
C14_EndGameResetsTable ==
    \A signer \in Wallets :
        signer = game.players[0] =>
            LET out == end_game(game, lamports, signer)
            IN  /\ ~game.is_active => out = Failed("GameNotActive", game, lamports)
                /\ (game.is_active /\ lamports >= game.pot) => out.result = "Ok"
                /\ out.result = "Ok" =>
                       /\ game.is_active
                       /\ out.moved = game.pot
                       /\ out.lamports = lamports - game.pot
                       /\ out.game = initialize_game(game.small_blind,
                                                     game.big_blind)

\* C14 is exercised: an end_game has just refunded a pot and left the table
\* as initialize_game makes it, and seat 0's identity is now gone
C14_Witness ==
    /\ last.op = "end_game"
    /\ last.moved > 0
    /\ last.moved = last.pot_before
    /\ game = initialize_game(5, 10)
    /\ rounds = 0

(* C15: in no reachable state does a bet, call or fold fail with           *)
(* NoActivePlayers, whoever the caller and whatever the amount.            *)
C15_NoActivePlayersNeverReturned ==
    \A player \in Wallets :
        /\ call(game, lamports, player).result # "NoActivePlayers"
        /\ fold(game, lamports, player).result # "NoActivePlayers"
        /\ \A amount \in BetAmounts :
               bet(game, lamports, player, amount).result # "NoActivePlayers"

(* C16: after every successful bet or call, and after every successful     *)
(* fold that leaves the round active, current_turn is the first seat after *)
(* the acting seat, in cyclic order modulo 6 and with the acting seat      *)
(* itself coming last, that is occupied and not folded: no such seat lies  *)
(* between the acting seat and the new current_turn.                       *)
C16_TurnPassesToNextSeatInHand ==
    [][ (last'.op \in {"bet", "call"} \/ (last'.op = "fold" /\ game'.is_active)) =>
            \E k \in 1 .. MAX_PLAYERS :
                /\ game'.current_turn = (game.current_turn + k) % MAX_PLAYERS
                /\ game'.current_turn \in InHand(game')
                /\ \A j \in 1 .. (k - 1) :
                       (game.current_turn + j) % MAX_PLAYERS \notin InHand(game')
      ]_vars

\* C16 is exercised: c in seat 2 has just called, and the turn has wrapped
\* over the empty seats and over the folded seat 0 to seat 1
C16_Witness ==
    /\ last.op = "call"
    /\ last.account = "c"
    /\ game.players[2] = "c"
    /\ game.players[1] = "b"
    /\ game.folded[0]
    /\ game.is_active
    /\ game.current_turn = 1

(* C17: in every reachable state start_round fails with                    *)
(* GameAlreadyStarted, leaving the account and its balance as they were,   *)
(* when is_active is true; it succeeds only when some seat is occupied;    *)
(* and when it succeeds no seat is folded, all player_bets and pot are 0,  *)
(* is_active is true, betting_round and current_turn are 0 and             *)
(* current_bet is big_blind.                                               *)
C17_StartRoundNeedsSeatedTable ==
    \A unix_timestamp \in Timestamps :
        LET out == start_round(game, lamports, unix_timestamp)
        IN  /\ game.is_active =>
                   out = Failed("GameAlreadyStarted", game, lamports)
            /\ out.result = "Ok" =>
                   /\ \E i \in Seats : Occupied(game, i)
                   /\ \A i \in Seats : ~out.game.folded[i]
                   /\ \A i \in Seats : out.game.player_bets[i] = 0
                   /\ out.game.pot = 0
                   /\ out.game.is_active
                   /\ out.game.betting_round = 0
                   /\ out.game.current_turn = 0
                   /\ out.game.current_bet = game.big_blind

(* C18: in every step in which pot decreases, the step is a successful     *)
(* reveal_winner or end_game that moves exactly the previous pot out of    *)
(* the balance of the Game account; start_round in particular never        *)
(* discards a pot.                                                         *)
C18_PotOnlyLeavesByPayout ==
    [][ game'.pot < game.pot =>
            /\ last'.op \in {"reveal_winner", "end_game"}
            /\ last'.moved = game.pot
            /\ lamports' = lamports - game.pot ]_vars

(* C19: in every reachable state pot is at most the deposits that          *)
(* join_game has transferred into the Game account less the amounts that   *)
(* reveal_winner and end_game have paid out of it, that is, at most what   *)
(* the balance of the account holds above the balance it was created with. *)
C19_PotBackedByDeposits == game.pot <= lamports - InitialLamports

(* C20: in every reachable state in which a fold passes its checks (the    *)
(* round is active, the caller's seat is not folded and has the turn),     *)
(* players_in_round is at least 1, so that the decrement of the u8 does    *)
(* not underflow.                                                          *)
C20_CounterNeverUnderflows ==
    \A player \in Wallets :
        Refusal(game, player, "PlayerAlreadyFolded") = "none" =>
            game.players_in_round >= 1

====
